---- MODULE Spec2Model ----
(***************************************************************************)
(* Ticket lifecycle of python-afip: LoginTicket parsing and expiration     *)
(* (afip/credentials.py), the token directory read by                      *)
(* WebServiceTool.get_ticket (afip/ws.py), written by WSAATool.authorize   *)
(* and listed by WSAATool.show (afip/wsaa.py), and the authenticated calls *)
(* of the domain clients (afip/wsfe.py, afip/wsfex.py,                     *)
(* afip/ws_sr_padron_a5.py).                                               *)
(*                                                                         *)
(* Representation notes.                                                   *)
(*  - Time is in seconds, as time.time() and datetime.timestamp().         *)
(*  - A file name is represented by the sequence of its dot-separated      *)
(*    segments: "p1.wsfe.xml" is <<"p1", "wsfe", "xml">>.  A service name  *)
(*    is the sequence of its segments as well ("wsfe.x" is <<"wsfe","x">>).*)
(*  - An XML document is the sequence of its leaf elements in document     *)
(*    order, each with its path below the root and its text.  The empty    *)
(*    sequence is the empty file, which is not well-formed XML.            *)
(*  - An optional value (None or a value) is a sequence of length 0 or 1.  *)
(***************************************************************************)
EXTENDS Integers, Sequences, FiniteSets, TLC

(***************************************************************************)
(* Bounds of the model.                                                    *)
(***************************************************************************)
MaxTick == 2     \* the clock takes values up to MaxTick * ClockStep
MaxFiles == 2    \* at most this many ticket files in the token directory
MaxLoaded == 1   \* at most this many tickets held by one credentials object

ClockStep == 300

(***************************************************************************)
(* Program constants.                                                      *)
(***************************************************************************)
TOKEN_EXPIRATION_OFFSET == 0 - 600

(***************************************************************************)
(* Inputs: the profiles added with ProfileTool.add (no dot in a name), the  *)
(* service names given to 'wsaa authorize', and the readings of the clock.  *)
(***************************************************************************)
Profiles == {"p1", "p2"}
RunProfile == "p1"    \* the profile of the process that holds the clients
Services == {<<"wsfe">>, <<"wsfex">>, <<"wsfe", "x">>}
Instants == {t \in {k * ClockStep + d : k \in 0..MaxTick, d \in {0 - 1, 0}} : t >= 0}

(***************************************************************************)
(* Element texts.  An ISO-8601 timestamp with a UTC offset is kept as its  *)
(* wall-clock reading and its offset, both in seconds; any other text is   *)
(* an opaque string.                                                       *)
(***************************************************************************)
Iso(wall, off) == [iso |-> TRUE, wall |-> wall, off |-> off]
Str(s) == [iso |-> FALSE, s |-> s]
Elem(path, text) == [path |-> path, text |-> text]

\* The loginTicketResponse document the login endpoint returns for a
\* declared expiration (epoch seconds) rendered at UTC offset off.
loginTicketResponse(declared, off, token, sign) ==
    << Elem("header/source", <<Str("wsaa")>>),
       Elem("header/uniqueId", <<Str("1")>>),
       Elem("header/expirationTime", <<Iso(declared + off, off)>>),
       Elem("credentials/token", <<Str(token)>>),
       Elem("credentials/sign", <<Str(sign)>>) >>

\* The same document without the optional header fields.
loginTicketResponseShort(declared, off, token, sign) ==
    << Elem("header/expirationTime", <<Iso(declared + off, off)>>),
       Elem("credentials/token", <<Str(token)>>),
       Elem("credentials/sign", <<Str(sign)>>) >>

ServerDocs ==
    { loginTicketResponse(ClockStep + 600, 0 - 10800, "T1", "S1"),
      loginTicketResponseShort(MaxTick * ClockStep + 600, 0, "T2", "S2") }

\* An answer of the login endpoint on which LoginTicket raises: a document
\* without expirationTime.
BrokenDocs ==
    { << Elem("credentials/token", <<Str("T1")>>),
         Elem("credentials/sign", <<Str("S1")>>) >> }

(***************************************************************************)
(* afip/credentials.py                                                     *)
(***************************************************************************)
\* ElementTree.find: the first element with the path, or None.
find(tree, path) ==
    LET hits == {i \in 1..Len(tree) : tree[i].path = path}
    IN  IF hits = {} THEN <<>>
        ELSE <<tree[CHOOSE i \in hits : \A j \in hits : i <= j]>>

\* dateutil.parser.parse(s).timestamp() of a timestamp with a UTC offset.
timestamp(text) == text.wall - text.off

\* The exception LoginTicket.__init__ raises on the document, or "ok".
LoginTicketError(xml) ==
    LET exp == find(xml, "header/expirationTime")
        tok == find(xml, "credentials/token")
        sig == find(xml, "credentials/sign")
    IN  IF xml = <<>> THEN "ParseError"
        ELSE IF exp = <<>> THEN "AttributeError"
        ELSE IF exp[1].text = <<>> THEN "TypeError"
        ELSE IF ~exp[1].text[1].iso THEN "ParserError"
        ELSE IF tok = <<>> \/ sig = <<>> THEN "AttributeError"
        ELSE "ok"

LoginTicket_minus(xml, expiration_offset) ==
    LET expires_str == find(xml, "header/expirationTime")[1].text[1]
    IN  [ xml |-> xml,
          expires_str |-> expires_str,
          expires |-> timestamp(expires_str) - expiration_offset,
          token |-> find(xml, "credentials/token")[1].text,
          signature |-> find(xml, "credentials/sign")[1].text ]

\* A ticket that keeps the three elements it read in place of the document.
LoginTicket_reserialized(xml, expiration_offset) ==
    LET expires_str == find(xml, "header/expirationTime")[1].text[1]
    IN  [ xml |-> << Elem("header/expirationTime", <<expires_str>>),
                     Elem("credentials/token", find(xml, "credentials/token")[1].text),
                     Elem("credentials/sign", find(xml, "credentials/sign")[1].text) >>,
          expires_str |-> expires_str,
          expires |-> timestamp(expires_str) + expiration_offset,
          token |-> find(xml, "credentials/token")[1].text,
          signature |-> find(xml, "credentials/sign")[1].text ]

\* LoginTicket.__init__, for a document on which it does not raise.
LoginTicket(xml, expiration_offset) ==
    LET expires_str == find(xml, "header/expirationTime")[1].text[1]
    IN  [ xml |-> xml,
          expires_str |-> expires_str,
          expires |-> timestamp(expires_str) + expiration_offset,
          token |-> find(xml, "credentials/token")[1].text,
          signature |-> find(xml, "credentials/sign")[1].text ]

is_expired_gt(ticket, clock) == clock > ticket.expires

\* LoginTicket.is_expired, with time.time() = clock.
is_expired(ticket, clock) == clock >= ticket.expires

(***************************************************************************)
(* The token directory: a function from the names of the files that exist  *)
(* to their contents.                                                      *)
(***************************************************************************)
\* A path that keeps only the first part of the service name.
token_path_first_part(profile, service) == <<profile, service[1], "xml">>

\* os.path.join(token_dir, profile + '.' + service + '.xml')
token_path(profile, service) == <<profile>> \o service \o <<"xml">>

exists(dir, path) == path \in DOMAIN dir

\* The content of the file, None when there is no such file.
read(dir, path) == IF path \in DOMAIN dir THEN <<dir[path]>> ELSE <<>>

unlink_noop(dir, path) == dir

\* os.unlink(path) of a file that exists.
unlink(dir, path) == [f \in DOMAIN dir \ {path} |-> dir[f]]

write_append(dir, path, data) ==
    LET old == IF path \in DOMAIN dir THEN dir[path] ELSE <<>>
    IN  [f \in DOMAIN dir \cup {path} |-> IF f = path THEN old \o data ELSE dir[f]]

write_keep_tail(dir, path, data) ==
    LET old == IF path \in DOMAIN dir THEN dir[path] ELSE <<>>
        new == data \o SubSeq(old, Len(data) + 1, Len(old))
    IN  [f \in DOMAIN dir \cup {path} |-> IF f = path THEN new ELSE dir[f]]

\* open(path, 'w'); fp.write(data); close: the file holds exactly data.
write_file(dir, path, data) ==
    [f \in DOMAIN dir \cup {path} |-> IF f = path THEN data ELSE dir[f]]

(***************************************************************************)
(* afip/ws.py                                                              *)
(***************************************************************************)
\* WebServiceTool.get_ticket with self.profile = profile at time clock:
\* how it ends (out), the ticket it returns and the directory it leaves.
get_ticket(dir, profile, service, clock) ==
    LET path == token_path(profile, service)
    IN  IF ~exists(dir, path)
        THEN [out |-> "FileNotFoundError", ticket |-> <<>>, dir |-> dir]
        ELSE IF LoginTicketError(dir[path]) # "ok"
        THEN [out |-> LoginTicketError(dir[path]), ticket |-> <<>>, dir |-> dir]
        ELSE LET ticket == LoginTicket(dir[path], TOKEN_EXPIRATION_OFFSET)
             IN  IF is_expired(ticket, clock)
                 THEN [out |-> "None", ticket |-> <<>>, dir |-> unlink(dir, path)]
                 ELSE [out |-> "ticket", ticket |-> <<ticket>>, dir |-> dir]

(***************************************************************************)
(* afip/wsaa.py                                                            *)
(***************************************************************************)
\* The keys of the dict WSAATool.show builds: t.split('.')[1] of every file
\* of the token directory whose name starts with self.profile + '.'.
show_tokens(dir, profile) ==
    {<<t[2]>> : t \in {f \in DOMAIN dir : Len(f) > 1 /\ f[1] = profile}}

\* The orders in which the dict of show can be iterated (the order of
\* os.listdir is arbitrary).
Orders(S) ==
    {o \in [1..Cardinality(S) -> S] : \A i, j \in 1..Cardinality(S) : o[i] = o[j] => i = j}

\* The loop of WSAATool.show over the services in order: how it ends, the
\* services it printed and the directory it leaves.
RECURSIVE show_loop(_, _, _, _, _)
show_loop(dir, profile, order, clock, yielded) ==
    IF order = <<>>
    THEN [out |-> "ok", yielded |-> yielded, dir |-> dir]
    ELSE LET r == get_ticket(dir, profile, Head(order), clock)
         IN  IF r.out \notin {"ticket", "None"}
             THEN [out |-> r.out, yielded |-> yielded, dir |-> r.dir]
             ELSE show_loop(r.dir, profile, Tail(order), clock,
                            IF r.out = "ticket" THEN yielded \cup {Head(order)} ELSE yielded)

(***************************************************************************)
(* afip/wsfe.py, afip/wsfex.py: a response of the remote service is a      *)
(* dict, a function from its keys to optional values.                      *)
(***************************************************************************)
CUIT == "20000000001"
Clients == {"wsfe", "wsfex"}

\* dict.get(key)
dict_get(d, key) == IF key \in DOMAIN d THEN d[key] ELSE <<>>

\* The shapes a WSFE response takes: no errors; a list of error records; an
\* error record without the result key; an Errors element whose Err list is
\* empty; an Errors element whose Err is None.
WSFEResponses ==
    { [Errors |-> <<>>, ResultGet |-> <<"r">>],
      [Errors |-> <<[Err |-> << << [Code |-> 10016, Msg |-> "x"],
                                   [Code |-> 600, Msg |-> "y"] >> >>]>>,
       ResultGet |-> <<>>],
      [Errors |-> <<[Err |-> << << [Code |-> 10016, Msg |-> "x"] >> >>]>>],
      [Errors |-> <<[Err |-> << <<>> >>]>>, ResultGet |-> <<"r">>],
      [Errors |-> <<[Err |-> <<>>]>>, ResultGet |-> <<"r">>] }

\* The shapes a WSFEX response takes: ErrCode 0; an error record; an error
\* record without the result key; no FEXErr key; a FEXErr that is None.
WSFEXResponses ==
    { [FEXErr |-> <<[ErrCode |-> 0, ErrMsg |-> "OK"]>>, FEXResultGet |-> <<"r">>],
      [FEXErr |-> <<[ErrCode |-> 1000, ErrMsg |-> "x"]>>, FEXResultGet |-> <<>>],
      [FEXErr |-> <<[ErrCode |-> 1000, ErrMsg |-> "x"]>>],
      [FEXResultGet |-> <<"r">>],
      [FEXErr |-> <<>>, FEXResultGet |-> <<"r">>] }

Responses(name) == IF name = "wsfe" THEN WSFEResponses ELSE WSFEXResponses
result_key_of(name) == IF name = "wsfe" THEN "ResultGet" ELSE "FEXResultGet"

\* WSFEClient._check_errors: the exception it ends with, "None" when it
\* returns.  errors[0] raises TypeError on None and IndexError on an empty
\* list.
WSFE_check_errors_raises(r) ==
    IF dict_get(r, "Errors") = <<>> \/ "Err" \notin DOMAIN r["Errors"][1]
    THEN "None"
    ELSE LET errors == r["Errors"][1]["Err"]
         IN  IF errors = <<>> THEN "TypeError"
             ELSE IF errors[1] = <<>> THEN "IndexError"
             ELSE "WebServiceError"

\* WSFEClient._check_errors: the WebServiceError (code, message) it raises,
\* or None.
WSFE_check_errors(r) ==
    IF WSFE_check_errors_raises(r) # "WebServiceError"
    THEN <<>>
    ELSE LET errors == r["Errors"][1]["Err"][1]
         IN  <<[code |-> errors[1]["Code"], message |-> errors[1]["Msg"]]>>

\* WSFEXClient._check_errors with error_key = 'FEXErr': the exception it
\* ends with, "None" when it returns.  ret[error_key]['ErrCode'] raises
\* TypeError on None.
WSFEX_check_errors_raises(r) ==
    IF "FEXErr" \notin DOMAIN r THEN "None"
    ELSE IF r["FEXErr"] = <<>> THEN "TypeError"
    ELSE IF r["FEXErr"][1]["ErrCode"] # 0 THEN "WebServiceError"
    ELSE "None"

\* WSFEXClient._check_errors: the WebServiceError (code, message) it raises,
\* or None.
WSFEX_check_errors(r) ==
    IF WSFEX_check_errors_raises(r) = "WebServiceError"
    THEN <<[code |-> r["FEXErr"][1]["ErrCode"], message |-> r["FEXErr"][1]["ErrMsg"]]>>
    ELSE <<>>

check_errors(name, r) == IF name = "wsfe" THEN WSFE_check_errors(r) ELSE WSFEX_check_errors(r)

check_errors_raises(name, r) ==
    IF name = "wsfe" THEN WSFE_check_errors_raises(r)
    ELSE WSFEX_check_errors_raises(r)

\* "if result_key is None: return ret" and "return ret[result_key]".
extract(r, result_key) ==
    IF result_key = <<>> THEN [out |-> "ok", result |-> <<r>>]
    ELSE IF result_key[1] \in DOMAIN r THEN [out |-> "ok", result |-> <<r[result_key[1]]>>]
    ELSE [out |-> "KeyError", result |-> <<>>]

\* The result taken out of the response before the errors are looked at.
invoke_extract_first(name, r, result_key) ==
    LET x == extract(r, result_key)
    IN  IF x.out # "ok" THEN [out |-> x.out, fault |-> <<>>, result |-> <<>>]
        ELSE IF check_errors_raises(name, r) # "None"
        THEN [out |-> check_errors_raises(name, r), fault |-> check_errors(name, r),
              result |-> <<>>]
        ELSE [out |-> "ok", fault |-> <<>>, result |-> x.result]

\* _invoke from the serialized response on: self._check_errors(ret), then
\* the result.
invoke(name, r, result_key) ==
    IF check_errors_raises(name, r) # "None"
    THEN [out |-> check_errors_raises(name, r), fault |-> check_errors(name, r),
          result |-> <<>>]
    ELSE [out |-> extract(r, result_key).out, fault |-> <<>>,
          result |-> extract(r, result_key).result]

(***************************************************************************)
(* State.                                                                  *)
(***************************************************************************)
VARIABLES
    now,        \* time.time()
    token_dir,  \* the files of WebServiceTool.token_dir
    tickets,    \* credentials.tickets: service name -> LoginTicket
    auth,       \* the auth attribute of the clients constructed
    ret,        \* the operation that ran last and how it ended
    proc        \* the position of each concurrent process in its operation

vars == <<now, token_dir, tickets, auth, ret, proc>>

Procs == {1, 2}

R0 == [op |-> "", profile |-> "", service |-> <<>>, out |-> "", ticket |-> <<>>,
       before |-> <<>>, yielded |-> {}, sent |-> <<>>, fault |-> <<>>, result |-> <<>>, args |-> <<>>]

Ret(op, profile, service, out, ticket) ==
    [R0 EXCEPT !.op = op, !.profile = profile, !.service = service,
               !.out = out, !.ticket = ticket]

\* A process between two operations: the operation it ran last (op), how
\* that ended (out) and what is_expired answered in it (verdict).
P0 == [pc |-> "idle", op |-> "", out |-> "", verdict |-> "", path |-> <<>>, xml |-> <<>>,
       ticket |-> <<>>]

Init ==
    /\ now = 0
    /\ token_dir = <<>>
    /\ tickets = <<>>
    /\ auth = <<>>
    /\ ret = [R0 EXCEPT !.op = "start"]
    /\ proc = [p \in Procs |-> P0]

\* The wall clock advances.
Tick ==
    /\ \E t \in Instants : t > now /\ now' = t
    /\ ret' = [R0 EXCEPT !.op = "tick"]
    /\ UNCHANGED <<token_dir, tickets, auth, proc>>

\* The file opened for writing before the ticket is requested.
WSAATool_authorize_open_first(profile, service) ==
    LET path == token_path(profile, service)
    IN  /\ Cardinality(DOMAIN token_dir \cup {path}) <= MaxFiles
        /\ \/ /\ token_dir' = write_file(token_dir, path, <<>>)
              /\ ret' = Ret("authorize", profile, service, "Fault", <<>>)
           \/ \E xml \in BrokenDocs :
                /\ token_dir' = write_file(token_dir, path, <<>>)
                /\ ret' = [Ret("authorize", profile, service, LoginTicketError(xml), <<>>)
                              EXCEPT !.result = <<xml>>]
           \/ \E xml \in ServerDocs :
                /\ token_dir' = write_file(token_dir, path, xml)
                /\ ret' = [Ret("authorize", profile, service, "ok",
                               <<LoginTicket(xml, TOKEN_EXPIRATION_OFFSET)>>)
                              EXCEPT !.before = read(token_dir, path), !.result = <<xml>>]
        /\ UNCHANGED <<now, tickets, auth, proc>>

\* WSAATool.authorize for args.service = service: the login endpoint reports
\* a fault, which is printed; or it returns a document on which LoginTicket
\* raises, and the exception leaves authorize; or it returns a ticket
\* document, which is stored.
WSAATool_authorize(profile, service) ==
    \/ /\ ret' = Ret("authorize", profile, service, "Fault", <<>>)
       /\ UNCHANGED <<now, token_dir, tickets, auth, proc>>
    \/ \E xml \in BrokenDocs :
         /\ ret' = [Ret("authorize", profile, service, LoginTicketError(xml), <<>>)
                       EXCEPT !.result = <<xml>>]
         /\ UNCHANGED <<now, token_dir, tickets, auth, proc>>
    \/ \E xml \in ServerDocs :
         LET path == token_path(profile, service)
         IN  /\ LoginTicketError(xml) = "ok"
             /\ Cardinality(DOMAIN token_dir \cup {path}) <= MaxFiles
             /\ token_dir' = write_file(token_dir, path,
                                         LoginTicket(xml, TOKEN_EXPIRATION_OFFSET).xml)
             /\ ret' = [Ret("authorize", profile, service, "ok",
                            <<LoginTicket(xml, TOKEN_EXPIRATION_OFFSET)>>)
                           EXCEPT !.before = read(token_dir, path), !.result = <<xml>>]
             /\ UNCHANGED <<now, tickets, auth, proc>>

\* WebServiceTool.get_ticket(service) of a tool running for profile.
WebServiceTool_get_ticket(profile, service) ==
    LET r == get_ticket(token_dir, profile, service, now)
    IN  /\ token_dir' = r.dir
        /\ ret' = [Ret("get_ticket", profile, service, r.out, r.ticket)
                      EXCEPT !.before = read(token_dir, token_path(profile, service))]
        /\ UNCHANGED <<now, tickets, auth, proc>>

\* WSAATool.show of a tool running for profile.
WSAATool_show(profile) ==
    \E order \in Orders(show_tokens(token_dir, profile)) :
        LET r == show_loop(token_dir, profile, order, now, {})
        IN  /\ token_dir' = r.dir
            /\ ret' = [R0 EXCEPT !.op = "show", !.profile = profile,
                                 !.out = r.out, !.yielded = r.yielded]
            /\ UNCHANGED <<now, tickets, auth, proc>>

\* A new process: a credentials object without tickets, no client.
AFIPCredentials_init ==
    /\ tickets # <<>>
    /\ tickets' = <<>>
    /\ auth' = <<>>
    /\ ret' = [R0 EXCEPT !.op = "credentials"]
    /\ UNCHANGED <<now, token_dir, proc>>

\* The caller obtains the ticket of the service through get_ticket and
\* puts it into credentials.tickets.
tickets_load(profile, name) ==
    LET r == get_ticket(token_dir, profile, <<name>>, now)
    IN  /\ r.out = "ticket"
        /\ Cardinality(DOMAIN tickets \cup {name}) <= MaxLoaded
        /\ tickets' = [n \in DOMAIN tickets \cup {name} |->
                          IF n = name THEN r.ticket[1] ELSE tickets[n]]
        /\ ret' = Ret("tickets_load", profile, <<name>>, "ok", r.ticket)
        /\ UNCHANGED <<now, token_dir, auth, proc>>

\* LoginTicket.is_expired() called on a ticket held in memory.
LoginTicket_is_expired(name) ==
    /\ name \in DOMAIN tickets
    /\ ret' = [R0 EXCEPT !.op = "is_expired", !.service = <<name>>,
                         !.ticket = <<tickets[name]>>,
                         !.out = IF is_expired(tickets[name], now) THEN "True" ELSE "False"]
    /\ UNCHANGED <<now, token_dir, tickets, auth, proc>>

\* WSFEClient.__init__ / WSFEXClient.__init__: the token and the signature
\* of credentials.tickets[name] are copied into self.auth.
Client_init(name) ==
    /\ name \in DOMAIN tickets
    /\ auth' = [n \in DOMAIN auth \cup {name} |->
                  IF n = name
                  THEN [Token |-> tickets[name].token, Sign |-> tickets[name].signature,
                        Cuit |-> CUIT]
                  ELSE auth[n]]
    /\ ret' = [R0 EXCEPT !.op = "client", !.service = <<name>>, !.out = "ok"]
    /\ UNCHANGED <<now, token_dir, tickets, proc>>

Client_invoke_invalidate(name, with_auth, result_key) ==
    /\ name \in DOMAIN auth
    /\ \E r \in Responses(name) :
         LET err == check_errors(name, r)
         IN  /\ ret' = [R0 EXCEPT !.op = "_invoke", !.service = <<name>>,
                          !.sent = IF with_auth THEN <<auth[name]>> ELSE <<>>,
                          !.fault = err,
                          !.out = IF err # <<>> THEN "WebServiceError" ELSE "ok"]
             /\ tickets' = IF err # <<>> THEN <<>> ELSE tickets
    /\ UNCHANGED <<now, token_dir, auth, proc>>

\* WSFEClient._invoke / WSFEXClient._invoke of an endpoint; the service
\* answers with r.
Client_invoke(name, with_auth, result_key) ==
    /\ name \in DOMAIN auth
    /\ \E r \in Responses(name) :
         LET args == IF with_auth THEN <<auth[name]>> ELSE <<>>
             i == invoke(name, r, result_key)
         IN  ret' = [R0 EXCEPT !.op = "_invoke", !.service = <<name>>, !.sent = args,
                       !.fault = i.fault, !.out = i.out, !.result = i.result,
                       !.args = <<[response |-> r, result_key |-> result_key]>>]
    /\ UNCHANGED <<now, token_dir, tickets, auth, proc>>

\* The command-line tools on the token directory.
Next ==
    \/ Tick
    \/ \E profile \in Profiles, service \in Services : WSAATool_authorize(profile, service)
    \/ \E profile \in Profiles, service \in Services : WebServiceTool_get_ticket(profile, service)
    \/ \E profile \in Profiles : WSAATool_show(profile)

\* A process that runs for one profile: it authorizes, loads tickets into
\* its credentials and calls the services through the domain clients.
NextClient ==
    \/ Tick
    \/ \E name \in Clients : WSAATool_authorize(RunProfile, <<name>>)
    \/ AFIPCredentials_init
    \/ \E name \in Clients : tickets_load(RunProfile, name)
    \/ \E name \in Clients : LoginTicket_is_expired(name)
    \/ \E name \in Clients : Client_init(name)
    \/ \E name \in Clients, with_auth \in BOOLEAN :
          \E result_key \in {<<>>, <<result_key_of(name)>>} :
              Client_invoke(name, with_auth, result_key)

Spec == Init /\ [][Next]_vars

SpecClient == Init /\ [][NextClient]_vars

(***************************************************************************)
(* Concurrent processes on one token directory.  Each process runs         *)
(* get_ticket or authorize one file-system call at a time, so that the     *)
(* calls of two processes interleave.                                      *)
(***************************************************************************)
\* The wall clock advances while processes run.
ConcTick ==
    /\ \E t \in Instants : t > now /\ now' = t
    /\ UNCHANGED <<token_dir, tickets, auth, ret, proc>>

\* get_ticket, "with open(path) as fp: ticket = LoginTicket(fp.read())".
P_get_ticket_read(p, profile, service) ==
    LET path == token_path(profile, service)
        done(out) == [P0 EXCEPT !.op = "get_ticket", !.out = out]
    IN  /\ proc[p].pc = "idle"
        /\ proc' = [proc EXCEPT ![p] =
              IF ~exists(token_dir, path) THEN done("FileNotFoundError")
              ELSE IF LoginTicketError(token_dir[path]) # "ok"
              THEN done(LoginTicketError(token_dir[path]))
              ELSE [P0 EXCEPT !.pc = "read", !.op = "get_ticket", !.path = path,
                      !.ticket = <<LoginTicket(token_dir[path], TOKEN_EXPIRATION_OFFSET)>>]]
        /\ UNCHANGED <<now, token_dir, tickets, auth, ret>>

\* get_ticket, "if ticket.is_expired(): os.unlink(path); return" and
\* "return ticket".
P_get_ticket_check(p) ==
    LET path == proc[p].path
        ticket == proc[p].ticket[1]
    IN  /\ proc[p].pc = "read"
        /\ IF is_expired(ticket, now)
           THEN IF exists(token_dir, path)
                THEN /\ token_dir' = unlink(token_dir, path)
                     /\ proc' = [proc EXCEPT ![p] = [P0 EXCEPT !.op = "get_ticket",
                                   !.verdict = "True", !.out = "None"]]
                ELSE /\ proc' = [proc EXCEPT ![p] = [P0 EXCEPT !.op = "get_ticket",
                                   !.verdict = "True", !.out = "FileNotFoundError"]]
                     /\ UNCHANGED token_dir
           ELSE /\ proc' = [proc EXCEPT ![p] = [P0 EXCEPT !.op = "get_ticket",
                              !.verdict = "False", !.out = "ticket",
                              !.ticket = proc[p].ticket]]
                /\ UNCHANGED token_dir
        /\ UNCHANGED <<now, tickets, auth, ret>>

\* WSAATool.authorize up to "open(path, 'w')": the login endpoint returned
\* a ticket document, and opening the file for writing truncates it.
P_authorize_open(p, profile, service) ==
    LET path == token_path(profile, service)
    IN  /\ proc[p].pc = "idle"
        /\ \E xml \in ServerDocs :
             /\ LoginTicketError(xml) = "ok"
             /\ Cardinality(DOMAIN token_dir \cup {path}) <= MaxFiles
             /\ token_dir' = write_file(token_dir, path, <<>>)
             /\ proc' = [proc EXCEPT ![p] = [P0 EXCEPT !.pc = "opened", !.op = "authorize",
                                               !.path = path, !.xml = xml]]
        /\ UNCHANGED <<now, tickets, auth, ret>>

\* WSAATool.authorize, "fp.write(ticket.xml)" and the close of the file.
P_authorize_write(p) ==
    /\ proc[p].pc = "opened"
    /\ token_dir' = write_file(token_dir, proc[p].path, proc[p].xml)
    /\ proc' = [proc EXCEPT ![p] = [P0 EXCEPT !.op = "authorize", !.out = "ok"]]
    /\ UNCHANGED <<now, tickets, auth, ret>>

NextConc ==
    \/ ConcTick
    \/ \E p \in Procs, profile \in Profiles, name \in Clients :
          P_get_ticket_read(p, profile, <<name>>)
    \/ \E p \in Procs : P_get_ticket_check(p)
    \/ \E p \in Procs, profile \in Profiles, name \in Clients :
          P_authorize_open(p, profile, <<name>>)
    \/ \E p \in Procs : P_authorize_write(p)

SpecConc == Init /\ [][NextConc]_vars

(***************************************************************************)
(* LoginTicket construction and the WSAA client (afip/credentials.py,      *)
(* afip/wsaa.py), on the documents and arguments a caller can pass.        *)
(***************************************************************************)
\* An element of a ticket document that may be missing, or present with or
\* without text.
Missing == [present |-> FALSE, text |-> <<>>]
Present(text) == [present |-> TRUE, text |-> text]

\* A ticket document with the three fields as given.
ticket_doc(exp, tok, sig) ==
    <<Elem("header/source", <<Str("wsaa")>>)>>
    \o (IF exp.present THEN <<Elem("header/expirationTime", exp.text)>> ELSE <<>>)
    \o (IF tok.present THEN <<Elem("credentials/token", tok.text)>> ELSE <<>>)
    \o (IF sig.present THEN <<Elem("credentials/sign", sig.text)>> ELSE <<>>)

ExpFields ==
    { Missing, Present(<<>>), Present(<<Str("tomorrow")>>),
      Present(<<Iso(ClockStep + 600 - 10800, 0 - 10800)>>),
      Present(<<Iso(MaxTick * ClockStep + 600, 0)>>) }
TokFields == {Missing, Present(<<>>), Present(<<Str("T1")>>)}
SigFields == {Missing, Present(<<Str("S1")>>)}

\* The documents LoginTicket is constructed on: the empty one, those of the
\* login endpoint and documents with missing or unusable fields.
TicketDocs ==
    {<<>>} \cup ServerDocs
    \cup {ticket_doc(e, t, g) : e \in ExpFields, t \in TokFields, g \in SigFields}

\* The values of the expiration_offset argument.
Offsets == {TOKEN_EXPIRATION_OFFSET, 0, 600}

TRA_TTL == 24 * 3600
TRA_DESTINATION_TESTING == "cn=wsaahomo,o=afip,c=ar,serialNumber=CUIT 33693450239"
TRA_DESTINATION_PRODUCTION == "cn=wsaa,o=afip,c=ar,serialNumber=CUIT 33693450239"
WSDL_URL_TESTING == "https://wsaahomo.afip.gov.ar/ws/services/LoginCms?wsdl"
WSDL_URL_PRODUCTION == "https://wsaa.afip.gov.ar/ws/services/LoginCms?wsdl"

\* A number rendered as text.
Num(n) == [iso |-> FALSE, num |-> n]

\* datetime rendered by isoformat() in the local zone of UTC offset off.
isoformat(t, off) == Iso(t + off, off)

\* The UTC offset of the local zone of the process.
LocalOffsets == {0 - 10800}

\* What a reading of the clock returns when the last one returned t: the
\* same instant or the next one.
Readings(t) ==
    {t} \cup {u \in Instants : u > t /\ \A v \in Instants : v > t => u <= v}

\* The documents the login endpoint answers with.
LoginDocs == ServerDocs \cup {<<>>, ticket_doc(Missing, Present(<<Str("T1")>>), Present(<<Str("S1")>>))}

\* The arguments of make_tra.
Sources == {<<>>, <<"cn=p1">>}
Destinations == {<<>>, <<"">>, <<TRA_DESTINATION_TESTING>>}
Ttls == {TRA_TTL, 0, 0 - 1}

\* WSAAClient.make_tra: t1 is what time.time() returns, t2 and t3 what the
\* two calls of datetime.now() return, off the offset of the local zone.
make_tra(service, source, destination, ttl, t1, t2, t3, off) ==
    (IF source # <<>> THEN <<Elem("header/source", <<Str(source[1])>>)>> ELSE <<>>)
    \o (IF destination # <<>> /\ destination[1] # ""
        THEN <<Elem("header/destination", <<Str(destination[1])>>)>> ELSE <<>>)
    \o << Elem("header/uniqueId", <<Num(t1)>>),
          Elem("header/generationTime", <<isoformat(t2, off)>>),
          Elem("header/expirationTime", <<isoformat(t3 + ttl, off)>>),
          Elem("service", <<Str(service)>>) >>

\* WSAAClient.sign_tra: the payload of the signed message, opaque here.
sign_tra(tra) == [p7m |-> tra]

\* WSAAClient.__init__: the WSDL of the login endpoint.
wsdl_of(production) == IF production THEN WSDL_URL_PRODUCTION ELSE WSDL_URL_TESTING

\* The name of a service as the text given to the client.
ServiceNames == {"wsfe", "wsfex"}

\* LoginTicket(xml, expiration_offset) called on a document.
LoginTicket_init(xml, expiration_offset) ==
    /\ ret' = [R0 EXCEPT !.op = "LoginTicket",
                         !.out = LoginTicketError(xml),
                         !.ticket = IF LoginTicketError(xml) = "ok"
                                    THEN <<LoginTicket(xml, expiration_offset)>> ELSE <<>>,
                         !.result = <<xml>>,
                         !.args = <<[expiration_offset |-> expiration_offset]>>]
    /\ UNCHANGED <<now, token_dir, tickets, auth, proc>>

\* WSAAClient.make_tra called by itself; the clock may advance between its
\* readings.
WSAAClient_make_tra(service, source, destination, ttl) ==
    \E t2 \in Readings(now), off \in LocalOffsets : \E t3 \in Readings(t2) :
        /\ now' = t3
        /\ ret' = [R0 EXCEPT !.op = "make_tra", !.out = "ok",
                     !.result = <<make_tra(service, source, destination, ttl, now, t2, t3, off)>>,
                     !.args = <<[service |-> service, source |-> source,
                                 destination |-> destination, ttl |-> ttl]>>]
        /\ UNCHANGED <<token_dir, tickets, auth, proc>>

\* WSAAClient.authorize of a client constructed for credentials with the
\* production flag: the login endpoint reports a fault or returns a document.
WSAAClient_authorize(production, service) ==
    \E t2 \in Readings(now), off \in LocalOffsets : \E t3 \in Readings(t2) :
        LET tra == make_tra(service, <<>>, <<>>, TRA_TTL, now, t2, t3, off)
            cms == sign_tra(tra)
            request == [wsdl |-> wsdl_of(production), cms |-> cms]
            base == [R0 EXCEPT !.op = "WSAAClient.authorize", !.sent = <<request>>,
                               !.args = <<[production |-> production, service |-> service]>>]
        IN  /\ now' = t3
            /\ \/ ret' = [base EXCEPT !.out = "Fault"]
               \/ \E xml \in LoginDocs :
                     ret' = [base EXCEPT !.out = LoginTicketError(xml),
                               !.result = <<xml>>,
                               !.ticket = IF LoginTicketError(xml) = "ok"
                                          THEN <<LoginTicket(xml, TOKEN_EXPIRATION_OFFSET)>>
                                          ELSE <<>>]
            /\ UNCHANGED <<token_dir, tickets, auth, proc>>

NextAuth ==
    \/ Tick
    \/ \E xml \in TicketDocs, expiration_offset \in Offsets :
          LoginTicket_init(xml, expiration_offset)
    \/ \E service \in ServiceNames, source \in Sources, destination \in Destinations,
          ttl \in Ttls : WSAAClient_make_tra(service, source, destination, ttl)
    \/ \E production \in BOOLEAN, service \in ServiceNames :
          WSAAClient_authorize(production, service)

SpecAuth == Init /\ [][NextAuth]_vars

(***************************************************************************)
(* Properties.                                                             *)
(***************************************************************************)
SafetyOffset == 600

\* The expiration the document declares, in epoch seconds.
Declared(xml) == timestamp(find(xml, "header/expirationTime")[1].text[1])

\* The effective expiration of the ticket of a well-formed document.
Effective(xml) == Declared(xml) - SafetyOffset

RetIs(r, op, profile, service) ==
    r.op = op /\ r.profile = profile /\ r.service = service

\* C1: is_expired() called at time t answers true exactly when
\* t >= declared expiration - safety offset, on every call: the answer of a
\* ticket held in memory follows the clock.
C1_IsExpiredIff ==
    ret.op = "is_expired" =>
        ((ret.out = "True") <=> (now >= Declared(ret.ticket[1].xml) - SafetyOffset))

\* A ticket that was loaded while valid answers "expired" at a later call.
C1_Witness ==
    /\ ret.op = "is_expired"
    /\ ret.out = "True"
    /\ now = Effective(ret.ticket[1].xml)

\* C2: get_ticket on a persisted ticket whose effective expiration is at or
\* before the current time returns None and removes the record; it writes
\* nothing.
C2_ExpiredLoadDeletes ==
    [][\A profile \in Profiles, service \in Services :
          LET path == token_path(profile, service)
          IN  ( /\ RetIs(ret', "get_ticket", profile, service)
                /\ exists(token_dir, path)
                /\ LoginTicketError(token_dir[path]) = "ok"
                /\ Effective(token_dir[path]) <= now )
              => /\ ret'.out = "None"
                 /\ ret'.ticket = <<>>
                 /\ ~exists(token_dir', path)
                 /\ \A f \in DOMAIN token_dir' :
                       f \in DOMAIN token_dir /\ token_dir'[f] = token_dir[f]
                 /\ DOMAIN token_dir' = DOMAIN token_dir \ {path}]_vars

\* get_ticket has read an expired record and returned None.
C2_Witness ==
    /\ ret.op = "get_ticket"
    /\ ret.before # <<>>
    /\ Effective(ret.before[1]) <= now
    /\ ret.out = "None"
    /\ ~exists(token_dir, token_path(ret.profile, ret.service))

\* C3: authorize writing ticket T under (profile, service), followed
\* immediately by get_ticket of the same key while T is not expired, returns
\* a ticket equal to T in token, signature and expiration and leaves the
\* record in place.
C3_SaveLoadRoundTrip ==
    [][\A profile \in Profiles, service \in Services :
          ( /\ RetIs(ret, "authorize", profile, service)
            /\ ret.out = "ok"
            /\ RetIs(ret', "get_ticket", profile, service)
            /\ now < ret.ticket[1].expires )
          => /\ ret'.out = "ticket"
             /\ ret'.ticket # <<>>
             /\ ret'.ticket[1].token = ret.ticket[1].token
             /\ ret'.ticket[1].signature = ret.ticket[1].signature
             /\ ret'.ticket[1].expires = ret.ticket[1].expires
             /\ exists(token_dir', token_path(profile, service))
             /\ token_dir' = token_dir]_vars

\* get_ticket has returned the ticket of the record that is stored.
C3_Witness ==
    /\ ret.op = "get_ticket"
    /\ ret.out = "ticket"
    /\ exists(token_dir, token_path(ret.profile, ret.service))
    /\ token_dir[token_path(ret.profile, ret.service)] = ret.ticket[1].xml
    /\ now < ret.ticket[1].expires

\* C4: get_ticket when no record is persisted for (profile, service)
\* returns None without failing and leaves the store unchanged.
C4_AbsentLoadReturnsNone ==
    [][\A profile \in Profiles, service \in Services :
          ( /\ RetIs(ret', "get_ticket", profile, service)
            /\ ~exists(token_dir, token_path(profile, service)) )
          => /\ ret'.out = "None"
             /\ token_dir' = token_dir]_vars

\* C5: every authenticated call sends the token and signature of a ticket
\* that is not expired at the moment of the call.
C5_NoUseAfterExpiration ==
    (ret.op = "_invoke" /\ ret.sent # <<>>) =>
        \E xml \in ServerDocs :
            /\ LoginTicket(xml, TOKEN_EXPIRATION_OFFSET).token = ret.sent[1].Token
            /\ LoginTicket(xml, TOKEN_EXPIRATION_OFFSET).signature = ret.sent[1].Sign
            /\ now < Effective(xml)

\* C6: a get_ticket that found the record expired returns None and does not
\* fail, also when another process deletes the same record in between.
C6_ConcurrentInvalidation ==
    \A p \in Procs :
        (proc[p].pc = "idle" /\ proc[p].op = "get_ticket" /\ proc[p].verdict = "True")
            => proc[p].out = "None"

\* C7: an authorize on a key that already holds a record replaces the record
\* by exactly the new document; the content of a record changes by nothing
\* but an authorize of its key; and a later get_ticket returns the token,
\* signature and expiration of the document that is stored.
C7_SecondSaveSupersedes ==
    [][\A profile \in Profiles, service \in Services :
          LET path == token_path(profile, service)
          IN  /\ (RetIs(ret', "authorize", profile, service) /\ ret'.out = "ok")
                    => /\ exists(token_dir', path)
                       /\ token_dir'[path] = ret'.ticket[1].xml
              /\ ( /\ exists(token_dir, path)
                   /\ exists(token_dir', path)
                   /\ token_dir'[path] # token_dir[path] )
                    => (RetIs(ret', "authorize", profile, service) /\ ret'.out = "ok")
              /\ ( /\ RetIs(ret', "get_ticket", profile, service)
                   /\ exists(token_dir, path)
                   /\ now < Effective(token_dir[path]) )
                    => /\ ret'.out = "ticket"
                       /\ ret'.ticket # <<>>
                       /\ ret'.ticket[1].xml = token_dir[path]
                       /\ ret'.ticket[1].token = find(token_dir[path], "credentials/token")[1].text
                       /\ ret'.ticket[1].signature = find(token_dir[path], "credentials/sign")[1].text
                       /\ ret'.ticket[1].expires = Effective(token_dir[path])]_vars

\* An authorize has overwritten the longer record of an earlier authorize.
C7_Witness ==
    /\ ret.op = "authorize"
    /\ ret.out = "ok"
    /\ ret.before # <<>>
    /\ Len(ret.before[1]) > Len(ret.ticket[1].xml)
    /\ token_dir[token_path(ret.profile, ret.service)] = ret.ticket[1].xml

\* C8: show yields, of the services under which a ticket is saved for the
\* profile, exactly those whose ticket is not expired, deletes every expired
\* record of the profile, does not fail, and neither yields nor deletes the
\* records of other profiles.
C8_ShowValidatesEveryRecord ==
    [][\A profile \in Profiles :
          (ret'.op = "show" /\ ret'.profile = profile)
          => /\ ret'.out = "ok"
             /\ \A service \in Services :
                   LET path == token_path(profile, service)
                   IN  /\ (service \in ret'.yielded)
                            <=> (exists(token_dir, path) /\ now < Effective(token_dir[path]))
                       /\ (exists(token_dir, path) /\ Effective(token_dir[path]) <= now)
                            => ~exists(token_dir', path)
             /\ \A f \in DOMAIN token_dir :
                   f[1] # profile => (f \in DOMAIN token_dir' /\ token_dir'[f] = token_dir[f])]_vars

\* C9: once the stored ticket of a key has passed its effective expiration,
\* get_ticket returns None and keeps returning None until an authorize of
\* the key succeeds, and nothing but a successful authorize creates or
\* replaces a record.
C9_NoAutomaticRenewal ==
    [][\A profile \in Profiles, service \in Services :
          LET path == token_path(profile, service)
          IN  /\ ( /\ RetIs(ret', "get_ticket", profile, service)
                   /\ exists(token_dir, path)
                   /\ Effective(token_dir[path]) <= now )
                    => ret'.out = "None"
              /\ ( /\ RetIs(ret, "get_ticket", profile, service)
                   /\ ret.out = "None"
                   /\ RetIs(ret', "get_ticket", profile, service) )
                    => ret'.out = "None"
              /\ ( /\ exists(token_dir', path)
                   /\ read(token_dir, path) # read(token_dir', path) )
                    => (RetIs(ret', "authorize", profile, service) /\ ret'.out = "ok")]_vars

\* C10: an authenticated call changes neither the ticket store nor the
\* tickets held nor the token and signature the client sends, whether it
\* returns a result or raises a service fault.
C10_InvokeChangesNoTicket ==
    [][ret'.op = "_invoke"
          => /\ token_dir' = token_dir
             /\ tickets' = tickets
             /\ auth' = auth]_vars

\* An authenticated call has raised a service fault while a record is stored
\* and a ticket is held.
C10_Witness ==
    /\ ret.op = "_invoke"
    /\ ret.out = "WebServiceError"
    /\ ret.sent # <<>>
    /\ token_dir # <<>>
    /\ tickets # <<>>

\* C11: the effective expiration of every ticket that can be constructed is
\* strictly earlier than the expiration its document declares.
C11_EffectiveBeforeDeclared ==
    (ret.op = "LoginTicket" /\ ret.out = "ok")
        => ret.ticket[1].expires < Declared(ret.result[1])

\* The generation time a request document states, in epoch seconds.
Generated(tra) == timestamp(find(tra, "header/generationTime")[1].text[1])

\* C12: the expirationTime of every request make_tra builds is its
\* generationTime plus ttl exactly, whatever the clock does meanwhile.
C12_ExpirationIsGenerationPlusTtl ==
    ret.op = "make_tra"
        => Declared(ret.result[1]) = Generated(ret.result[1]) + ret.args[1].ttl

\* C13: the request WSAAClient.authorize submits names the realm of the
\* environment as its destination, and goes to the endpoint of the same
\* environment.
C13_RealmOfEnvironment ==
    ret.op = "WSAAClient.authorize"
        => LET request == ret.sent[1]
               production == ret.args[1].production
               destination == find(request.cms.p7m, "header/destination")
           IN  /\ request.wsdl =
                     (IF production THEN WSDL_URL_PRODUCTION ELSE WSDL_URL_TESTING)
               /\ destination # <<>>
               /\ destination[1].text =
                     <<Str(IF production THEN TRA_DESTINATION_PRODUCTION
                                         ELSE TRA_DESTINATION_TESTING)>>

\* A document that lacks the expiration, the token or the signature, or
\* whose expiration is not a timestamp.
Malformed(xml) ==
    \/ find(xml, "header/expirationTime") = <<>>
    \/ find(xml, "credentials/token") = <<>>
    \/ find(xml, "credentials/sign") = <<>>
    \/ find(xml, "header/expirationTime")[1].text = <<>>
    \/ ~find(xml, "header/expirationTime")[1].text[1].iso

\* C17: constructing a LoginTicket on a malformed document fails with the
\* MalformedTicket error, produces no ticket and raises nothing else.
C17_MalformedTicketError ==
    (ret.op = "LoginTicket" /\ Malformed(ret.result[1]))
        => (ret.out = "MalformedTicket" /\ ret.ticket = <<>>)

\* C18: make_tra with a ttl that is not positive fails with InvalidArgument
\* and produces no request document.
C18_NonPositiveTtlRejected ==
    (ret.op = "make_tra" /\ ret.args[1].ttl <= 0)
        => (ret.out = "InvalidArgument" /\ ret.result = <<>>)

\* C20: when the login endpoint answers with a ticket document, the ticket
\* WSAAClient.authorize returns has the token and the signature of the
\* document and its declared expiration less 600 seconds (T1, S1 and E - 600
\* for the document carrying T1, S1 and E), after exactly one login request.
C20_AuthorizeReturnsTicketOfDocument ==
    (ret.op = "WSAAClient.authorize" /\ ret.result # <<>> /\ ret.result[1] \in ServerDocs)
        => /\ ret.out = "ok"
           /\ ret.ticket # <<>>
           /\ Len(ret.sent) = 1
           /\ ret.ticket[1].token = find(ret.result[1], "credentials/token")[1].text
           /\ ret.ticket[1].signature = find(ret.result[1], "credentials/sign")[1].text
           /\ ret.ticket[1].expires = Declared(ret.result[1]) - SafetyOffset
           /\ \A E \in {ClockStep + 600} :
                 ret.result[1] = loginTicketResponse(E, 0 - 10800, "T1", "S1")
                    => /\ ret.ticket[1].token = <<Str("T1")>>
                       /\ ret.ticket[1].signature = <<Str("S1")>>
                       /\ ret.ticket[1].expires = E - 600

\* WSAAClient.authorize has returned the ticket of the document with T1, S1.
C20_Witness ==
    /\ ret.op = "WSAAClient.authorize"
    /\ ret.out = "ok"
    /\ ret.result = <<loginTicketResponse(ClockStep + 600, 0 - 10800, "T1", "S1")>>
    /\ ret.ticket[1].token = <<Str("T1")>>
    /\ Len(ret.sent) = 1

\* C14: on a WSFE response with a non-null Errors holding an Err list the
\* call raises the service fault with the Code and Msg of the first record
\* (10016 and "x") and returns no result, and whatever the shape of the
\* response the error check raises that service fault or nothing.
C14_ServiceFaultOfFirstRecord ==
    (ret.op = "_invoke" /\ ret.service = <<"wsfe">>)
        => LET r == ret.args[1].response
           IN  /\ ( /\ dict_get(r, "Errors") # <<>>
                    /\ "Err" \in DOMAIN r["Errors"][1] )
                     => /\ ret.out = "WebServiceError"
                        /\ ret.result = <<>>
               /\ ret.out = "WebServiceError"
                     => /\ ret.fault[1].code = r["Errors"][1]["Err"][1][1]["Code"]
                        /\ ret.fault[1].message = r["Errors"][1]["Err"][1][1]["Msg"]
               /\ WSFE_check_errors_raises(r) \in {"WebServiceError", "None"}

C16_NoPartialRecordObserved ==
    \A p \in Procs :
        (proc[p].pc = "idle" /\ proc[p].op = "get_ticket")
            => /\ proc[p].out \notin {"ParseError", "AttributeError", "TypeError", "ParserError"}
               /\ proc[p].out = "ticket"
                     => \E xml \in ServerDocs : proc[p].ticket[1].xml = xml

C21_SingleRecordFault ==
    (ret.op = "_invoke" /\ ret.service = <<"wsfex">>)
        => LET r == ret.args[1].response
               result_key == ret.args[1].result_key
               err == dict_get(r, "FEXErr")
               matches == err # <<>> /\ err[1]["ErrCode"] # 0
           IN  /\ matches <=> ret.out = "WebServiceError"
               /\ matches => /\ ret.fault = <<[code |-> err[1]["ErrCode"],
                                               message |-> err[1]["ErrMsg"]]>>
                             /\ ret.result = <<>>
               /\ (~matches /\ result_key = <<>>)
                     => (ret.out = "ok" /\ ret.result = <<r>>)
               /\ (~matches /\ result_key # <<>> /\ result_key[1] \in DOMAIN r)
                     => (ret.out = "ok" /\ ret.result = <<r[result_key[1]]>>)
               /\ WSFEX_check_errors_raises(r) \in {"WebServiceError", "None"}

\* C22: an authorize that ends with a fault of the login endpoint, or with
\* the failure to parse its answer, leaves every file of the token directory
\* as it was: no record is created for the key and an existing one keeps its
\* content; an authorize writes a record only when it ends with the ticket
\* parsed from the document received.
C22_FailedAuthorizeKeepsStore ==
    [][\A profile \in Profiles, service \in Services :
          LET path == token_path(profile, service)
          IN  RetIs(ret', "authorize", profile, service)
                => /\ ret'.out # "ok" => token_dir' = token_dir
                   /\ read(token_dir', path) # read(token_dir, path)
                        => /\ ret'.out = "ok"
                           /\ ret'.result # <<>>
                           /\ LoginTicketError(ret'.result[1]) = "ok"
                           /\ ret'.ticket = <<LoginTicket(ret'.result[1],
                                                          TOKEN_EXPIRATION_OFFSET)>>
                           /\ read(token_dir', path) = ret'.result]_vars

\* An authorize has ended with a fault while a record of its key is stored.
C22_Witness ==
    /\ ret.op = "authorize"
    /\ ret.out = "Fault"
    /\ exists(token_dir, token_path(ret.profile, ret.service))
    /\ LoginTicketError(token_dir[token_path(ret.profile, ret.service)]) = "ok"

\* C23: an authorize or a get_ticket on the key (profile, service), the
\* deletion of an expired record included, leaves the record of every other
\* key as it was, neither created nor changed nor deleted, and the files of
\* two different keys are different files.
C23_RecordsIsolatedPerKey ==
    [][\A profile \in Profiles, service \in Services :
          ( \/ RetIs(ret', "authorize", profile, service)
            \/ RetIs(ret', "get_ticket", profile, service) )
            => \A p \in Profiles, s \in Services :
                  <<p, s>> # <<profile, service>>
                     => /\ token_path(p, s) # token_path(profile, service)
                        /\ read(token_dir', token_path(p, s))
                             = read(token_dir, token_path(p, s))]_vars

\* A get_ticket has deleted the expired record of a key while the record of
\* another service of the same profile, whose name begins alike, is stored.
C23_Witness ==
    /\ ret.op = "get_ticket"
    /\ ret.out = "None"
    /\ ret.before # <<>>
    /\ ret.service = <<"wsfe">>
    /\ ~exists(token_dir, token_path(ret.profile, <<"wsfe">>))
    /\ exists(token_dir, token_path(ret.profile, <<"wsfe", "x">>))

====
